---- MODULE Spec2Model ----
(***************************************************************************)
(* Model of the tonic-solfa notation engine of sheet_to_solfa: the         *)
(* plain-text parser (parseTextToMeasures), the frequency mapper and tone  *)
(* dispatch of lib/audio.ts, and the playback scheduler of SolfaDisplay    *)
(* (handlePlayAll / handleStop / handleNoteClick / legend click).          *)
(*                                                                         *)
(* Strings are sequences of one-character strings, so that startsWith,     *)
(* trim, split and replace are computed character by character.            *)
(* Durations are counted in units of 1/BEAT beat (BEAT = 2: an eighth note *)
(* of 0.5 beat is 1 unit, a quarter note of 1 beat is 2 units).            *)
(* Frequencies are in hundredths of a hertz.                               *)
(***************************************************************************)
EXTENDS Integers, Sequences, FiniteSets, TLC

VARIABLES
    \* ---- React state and module state of the playback scheduler
    measures,        \* the memoised Measure list of SolfaDisplay
    isPlaying,       \* useState(false)
    currentMeasure,  \* useState<number|null>(null): <<>> is null, <<n>> is n
    audioContext,    \* module-level singleton: "null", "suspended", "running"
    walks,           \* the invocations of handlePlayAll, in start order
    awaiting,        \* FIFO of continuations suspended on ctx.resume()
    tones,           \* log of oscillators started by playNote
    audioAvailable,  \* the host has an AudioContext constructor (isAudioAvailable)
    constructed,     \* number of AudioContext objects constructed so far
    raised,          \* log of the TypeErrors raised for want of a constructor
    \* ---- a direct invocation of playSequence
    seq,
    \* ---- a call of parseTextToMeasures
    text,            \* the transcript
    parsed,          \* <<>> before the call, <<result>> after it
    \* ---- the first render of SolfaDisplay (the useMemo of its Measure list)
    structuredData,  \* the optional prop: <<>> is undefined, <<doc>> is doc
    memo,            \* <<>> before the render, <<outcome>> after it
    \* ---- a call of parseSolfaSyllable
    rawToken,        \* the argument
    classified,      \* <<>> before the call, <<result>> after it
    \* ---- calls of solfaToFrequency on rawToken
    mapped,          \* log of the calls: arguments, result, state at the call
    \* ---- the job status page (app/job/[id]/page.tsx)
    job

vars == <<measures, isPlaying, currentMeasure, audioContext, walks, awaiting,
          tones, audioAvailable, constructed, raised, seq, text, parsed,
          structuredData, memo, rawToken, classified, mapped, job>>

hostVars == <<audioAvailable, constructed, raised>>

mapVars == <<mapped>>

jobVars == <<job>>

renderVars == <<structuredData, memo>>

classifyVars == <<rawToken, classified>>

playVars == <<measures, isPlaying, currentMeasure, audioContext, walks,
              awaiting, tones>>

(***************************************************************************)
(* Bounds of the model.                                                    *)
(***************************************************************************)
MaxLexemes == 6
MaxWalks == 2
MaxTones == 2
MaxSeqLen == 3
MaxLate == 1
MaxHeaderLexemes == 4
MaxTokens == 4
MaxDocItems == 4
MaxMarks == 3
MaxRaised == 4
MaxCalls == 2
MaxTicks == 3

\* units of duration per beat (0.5 beat is the smallest duration the parser emits)
BEAT == 2

(***************************************************************************)
(* String helpers (JavaScript String methods).                             *)
(***************************************************************************)
Max(a, b) == IF a >= b THEN a ELSE b

\* characters matched by \s and removed by trim()
IsSpace(c) == c \in {" ", "\t", "\r", "\n"}

\* s.startsWith(p)
startsWith(s, p) == Len(s) >= Len(p) /\ SubSeq(s, 1, Len(p)) = p

\* s.endsWith(p)
endsWith(s, p) == Len(s) >= Len(p) /\ SubSeq(s, Len(s) - Len(p) + 1, Len(s)) = p

\* s.includes(c) for a one-character c
includes(s, c) == \E i \in 1..Len(s) : s[i] = c

\* s.replace(/[...]/g, ''): drop every character of the class cs
RECURSIVE removeChars(_, _)
removeChars(s, cs) ==
    IF s = <<>> THEN <<>>
    ELSE IF Head(s) \in cs THEN removeChars(Tail(s), cs)
    ELSE <<Head(s)>> \o removeChars(Tail(s), cs)

\* s.trim()
RECURSIVE trimStart(_)
trimStart(s) == IF s # <<>> /\ IsSpace(Head(s)) THEN trimStart(Tail(s)) ELSE s

RECURSIVE trimEnd(_)
trimEnd(s) ==
    IF s # <<>> /\ IsSpace(s[Len(s)]) THEN trimEnd(SubSeq(s, 1, Len(s) - 1)) ELSE s

trim(s) == trimEnd(trimStart(s))

\* s.split(c) for a one-character separator: always at least one piece
RECURSIVE splitChar(_, _, _)
splitChar(s, c, cur) ==
    IF s = <<>> THEN <<cur>>
    ELSE IF Head(s) = c THEN <<cur>> \o splitChar(Tail(s), c, <<>>)
    ELSE splitChar(Tail(s), c, Append(cur, Head(s)))

split(s, c) == splitChar(s, c, <<>>)

\* s.split(/\s+/).filter(t => t): the maximal runs of non-space characters
RECURSIVE splitWs(_, _)
splitWs(s, cur) ==
    IF s = <<>> THEN (IF cur = <<>> THEN <<>> ELSE <<cur>>)
    ELSE IF IsSpace(Head(s))
         THEN (IF cur = <<>> THEN <<>> ELSE <<cur>>) \o splitWs(Tail(s), <<>>)
    ELSE splitWs(Tail(s), Append(cur, Head(s)))

\* array.filter(m => m.trim())
RECURSIVE filterNonBlank(_)
filterNonBlank(ss) ==
    IF ss = <<>> THEN <<>>
    ELSE IF trim(Head(ss)) # <<>> THEN <<Head(ss)>> \o filterNonBlank(Tail(ss))
    ELSE filterNonBlank(Tail(ss))

(***************************************************************************)
(* parseTextToMeasures                                                     *)
(***************************************************************************)
SUSTAIN == <<"-">>

\* lines 287-289: the header / separator / blank test of one line
isSkippedLine(line) ==
    \/ startsWith(line, <<"#">>)
    \/ startsWith(line, <<"K", "e", "y", ":">>)
    \/ startsWith(line, <<"T", "i", "m", "e">>)
    \/ startsWith(line, <<"M", "e", "a", "s", "u", "r", "e", "s", ":">>)
    \/ startsWith(line, <<"-">>)
    \/ startsWith(line, <<"G", "e", "n", "e", "r", "a", "t", "e", "d", ":">>)
    \/ trim(line) = <<>>

\* a held note that sets the previous note to two beats instead of adding one
extendPreviousToTwoBeats(notes) ==
    IF Len(notes) > 0
    THEN [notes EXCEPT ![Len(notes)].duration = 2 * BEAT]
    ELSE notes

\* lines 303-309: a held note extends the previous note of the measure
extendPrevious(notes) ==
    IF Len(notes) > 0
    THEN [notes EXCEPT ![Len(notes)].duration =
              (IF @ = 0 THEN BEAT ELSE @) + BEAT]
    ELSE notes

\* a token counted as an eighth note as soon as it opens a parenthesis
tokenNoteOpenParen(token) ==
    LET isEighth == startsWith(token, <<"(">>)
        cleanToken == removeChars(token, {"(", ")"})
    IN  [syllable |-> cleanToken,
         duration |-> IF isEighth THEN 1 ELSE BEAT,
         isRest   |-> cleanToken = <<"0">>]

\* lines 311-319: the note pushed for a token that is not a held-note dash
tokenNote(token) ==
    LET isEighth == startsWith(token, <<"(">>) /\ endsWith(token, <<")">>)
        cleanToken == removeChars(token, {"(", ")"})
    IN  [syllable |-> cleanToken,
         duration |-> IF isEighth THEN 1 ELSE BEAT,
         isRest   |-> cleanToken = <<"0">>]

\* lines 301-320: the loop over the tokens of one measure
RECURSIVE parseTokens(_, _)
parseTokens(noteTokens, notes) ==
    IF noteTokens = <<>> THEN notes
    ELSE LET token == Head(noteTokens)
         IN  IF token = SUSTAIN
             THEN parseTokens(Tail(noteTokens), extendPrevious(notes))
             ELSE parseTokens(Tail(noteTokens), Append(notes, tokenNote(token)))

\* line 298
tokenize(measureText) == splitWs(trim(measureText), <<>>)

\* a counter declared inside the loop over the lines restarts on every line
counterDeclaredInLoop(measureNumber) == 1

\* line 283: measureNumber is declared once, outside the loop over the lines,
\* so every line continues from the value the previous line left
counterForLine(measureNumber) == measureNumber

\* lines 297-327: the loop over the measure texts of one line; the state is
\* [measures, measureNumber]
RECURSIVE parseSegments(_, _, _)
parseSegments(measureTexts, beatsPerMeasure, st) ==
    IF measureTexts = <<>> THEN st
    ELSE parseSegments(Tail(measureTexts), beatsPerMeasure,
             [measures |-> Append(st.measures,
                  [number |-> st.measureNumber,
                   beatsPerMeasure |-> beatsPerMeasure,
                   notes |-> parseTokens(tokenize(Head(measureTexts)), <<>>)]),
              measureNumber |-> st.measureNumber + 1])

\* line 295
measureTextsOf(line) == filterNonBlank(split(line, "|"))

\* lines 285-329: the loop over the lines
RECURSIVE parseLines(_, _, _)
parseLines(lines, beatsPerMeasure, st) ==
    IF lines = <<>> THEN st
    ELSE LET line == Head(lines)
             here == [st EXCEPT !.measureNumber = counterForLine(@)]
         IN  IF isSkippedLine(line) THEN parseLines(Tail(lines), beatsPerMeasure, st)
             ELSE IF includes(line, "|")
             THEN parseLines(Tail(lines), beatsPerMeasure,
                      parseSegments(measureTextsOf(line), beatsPerMeasure, here))
             ELSE parseLines(Tail(lines), beatsPerMeasure, st)

\* lines 279-332
parseTextToMeasures(t, beatsPerMeasure) ==
    parseLines(split(t, "\n"), beatsPerMeasure,
               [measures |-> <<>>, measureNumber |-> 1]).measures

\* lines 52-55: parseInt(parts[0]) || 4 for the time signature "4/4"
DefaultBeatsPerMeasure == 4

(***************************************************************************)
(* lib/audio.ts: the frequency mapper.                                     *)
(***************************************************************************)
UPPER == <<"A", "B", "C", "D", "E", "F", "G", "H", "I", "J", "K", "L", "M",
           "N", "O", "P", "Q", "R", "S", "T", "U", "V", "W", "X", "Y", "Z">>
LOWER == <<"a", "b", "c", "d", "e", "f", "g", "h", "i", "j", "k", "l", "m",
           "n", "o", "p", "q", "r", "s", "t", "u", "v", "w", "x", "y", "z">>

\* s.toLowerCase()
toLowerCase(s) ==
    [k \in 1..Len(s) |->
        IF \E u \in 1..26 : UPPER[u] = s[k]
        THEN LOWER[CHOOSE u \in 1..26 : UPPER[u] = s[k]]
        ELSE s[k]]

\* (s.match(/c/g) || []).length
countChar(s, c) == Cardinality({ k \in 1..Len(s) : s[k] = c })

\* lines 6-11: NOTE_FREQUENCIES[noteName + octave] in hundredths of a hertz,
\* 0 where the table has no such key (undefined)
NOTE_FREQUENCIES(noteName, octave) ==
    LET row == CASE octave = 3 -> [C |-> 13081, D |-> 14683, E |-> 16481, F |-> 17461,
                                   G |-> 19600, A |-> 22000, B |-> 24694]
                 [] octave = 4 -> [C |-> 26163, D |-> 29366, E |-> 32963, F |-> 34923,
                                   G |-> 39200, A |-> 44000, B |-> 49388]
                 [] octave = 5 -> [C |-> 52325, D |-> 58733, E |-> 65925, F |-> 69846,
                                   G |-> 78399, A |-> 88000, B |-> 98777]
                 [] octave = 6 -> [C |-> 104650]
                 [] OTHER -> [none |-> 0]
    IN  IF noteName \in DOMAIN row THEN row[noteName] ELSE 0

\* own keys of SOLFA_TO_NOTE (lines 14-16)
SOLFA_TO_NOTE == [d |-> "C", r |-> "D", m |-> "E", f |-> "F", s |-> "G",
                  l |-> "A", t |-> "B"]

\* lower-case property names every object literal inherits from Object.prototype:
\* SOLFA_TO_NOTE[key] is a truthy non-string value for them
InheritedKeys == { <<"c", "o", "n", "s", "t", "r", "u", "c", "t", "o", "r">>,
                   <<"_", "_", "p", "r", "o", "t", "o", "_", "_">> }

\* lines 38-41: SOLFA_TO_NOTE[baseSyllable]: a note letter, "inherited" for an
\* inherited property, "undefined" otherwise
noteNameOf(baseSyllable) ==
    IF Len(baseSyllable) = 1 /\ baseSyllable[1] \in DOMAIN SOLFA_TO_NOTE
    THEN SOLFA_TO_NOTE[baseSyllable[1]]
    ELSE IF baseSyllable \in InheritedKeys THEN "inherited"
    ELSE "undefined"

\* lines 38-39
baseSyllableOf(syllable) == removeChars(toLowerCase(syllable), {"'", ","})

\* lines 44-47
adjustedOctaveOf(syllable, octave) ==
    LET highCount == countChar(syllable, "'")
        lowCount == countChar(syllable, ",")
    IN  octave + highCount - lowCount

\* line 36: the default of the keyRoot parameter
DefaultKeyRoot == "C"

\* a lookup that has no default for a key the table lacks
solfaToFrequencyNoFallback(syllable, octave, keyRoot) ==
    LET noteName == noteNameOf(baseSyllableOf(syllable))
    IN  IF noteName = "undefined" THEN 0
        ELSE NOTE_FREQUENCIES(noteName, adjustedOctaveOf(syllable, octave))

\* a mapper that moves up an octave for every key root but C
solfaToFrequencyTransposed(syllable, octave, keyRoot) ==
    LET noteName == noteNameOf(baseSyllableOf(syllable))
        adjustedOctave == adjustedOctaveOf(syllable, octave)
                            + (IF keyRoot = DefaultKeyRoot THEN 0 ELSE 1)
        found == NOTE_FREQUENCIES(noteName, adjustedOctave)
    IN  IF noteName = "undefined" THEN 0
        ELSE IF found # 0 THEN found
        ELSE NOTE_FREQUENCIES("C", 4)

\* lines 33-51: keyRoot is a parameter that the body never reads
solfaToFrequency(syllable, octave, keyRoot) ==
    LET noteName == noteNameOf(baseSyllableOf(syllable))
        adjustedOctave == adjustedOctaveOf(syllable, octave)
        found == NOTE_FREQUENCIES(noteName, adjustedOctave)
    IN  IF noteName = "undefined" THEN 0
        ELSE IF found # 0 THEN found
        ELSE NOTE_FREQUENCIES("C", 4)

\* lines 39-49: the key `${noteName}${adjustedOctave}` that line 50 looks up,
\* <<>> when line 41 returns before any lookup
noteKeyOf(syllable, octave) ==
    LET noteName == noteNameOf(baseSyllableOf(syllable))
    IN  IF noteName = "undefined" THEN <<>>
        ELSE <<[noteName |-> noteName, octave |-> adjustedOctaveOf(syllable, octave)]>>

\* note.duration || 1, in duration units
durationOrOne(duration) == IF duration = 0 THEN BEAT ELSE duration

\* lines 117 and 124: (durationBeats * 60 * 1000) / tempo, in milliseconds
durationMs(durationBeats, tempo) == (durationBeats * 60 * 1000) \div (BEAT * tempo)

\* line 114: the notes playSequence waits out without calling playSolfaNote
isSkippedNote(note) ==
    \/ note.isRest
    \/ note.syllable = <<>>
    \/ trim(note.syllable) = <<>>
    \/ note.syllable = <<"0">>

\* a timer armed with no delay
timerDelayZero(note, tempo) == 0

\* lines 118 and 129: the delay of the timer playSequence awaits after a note
timerDelay(note, tempo) == durationMs(durationOrOne(note.duration), tempo)

\* line 122 (note.octave || 4; the Note model carries no octave) and line 87
DefaultOctave == 4
\* lines 87, 100 and 268: the tempo every caller passes
Tempo == 120

(***************************************************************************)
(* lib/solfa-colors: the syllable classifier.                              *)
(***************************************************************************)
\* the SolfaSyllable type: the own keys of SOLFA_COLORS (lines 21-94)
SOLFA_COLORS == {"d", "r", "m", "f", "s", "l", "t", "0"}

\* line 124: SOLFA_COLORS[key] is truthy for an own key and for a property
\* the object literal inherits from Object.prototype
hasSolfaColor(key) ==
    \/ (Len(key) = 1 /\ key[1] \in SOLFA_COLORS)
    \/ key \in InheritedKeys

\* a match of /['|,]$/: the last character alone
trailingMarker(cleaned) ==
    IF cleaned # <<>> /\ cleaned[Len(cleaned)] \in {"'", ","}
    THEN <<cleaned[Len(cleaned)]>>
    ELSE <<>>

\* lines 117-118: cleaned.match(/([']+|[,]+)$/), '' when there is no match:
\* the longest suffix that repeats one marker character
trailingRun(cleaned) ==
    IF cleaned # <<>> /\ cleaned[Len(cleaned)] \in {"'", ","}
    THEN LET c == cleaned[Len(cleaned)]
             k == CHOOSE i \in 1..Len(cleaned) :
                      /\ \A j \in i..Len(cleaned) : cleaned[j] = c
                      /\ (i = 1 \/ cleaned[i - 1] # c)
         IN  SubSeq(cleaned, k, Len(cleaned))
    ELSE <<>>

\* lines 108-129
parseSolfaSyllable(t) ==
    LET isEighth == startsWith(t, <<"(">>) /\ endsWith(t, <<")">>)
        cleaned == removeChars(t, {"(", ")"})
        octaveModifier == trailingRun(cleaned)
        baseSyllable == toLowerCase(removeChars(cleaned, {"'", ",", "."}))
        syllable == IF baseSyllable = <<"-">> THEN <<"0">> ELSE baseSyllable
    IN  [syllable |-> IF hasSolfaColor(syllable) THEN syllable ELSE <<"0">>,
         octaveModifier |-> octaveModifier,
         isEighth |-> isEighth]

(***************************************************************************)
(* SolfaDisplay: the Measure list of a render (useMemo, lines 58-73).      *)
(* An optional property is <<>> when absent and <<v>> when it has value v. *)
(* A structured note is [syllable, octave_modifier, duration, is_rest,     *)
(* display] with the last four optional; a structured measure is           *)
(* [number, notes].  The outcome of an evaluation is [threw, value].       *)
(***************************************************************************)
\* structuredData.measures without the optional chaining: reading a property
\* of undefined throws a TypeError
measuresOfUnchained(sd) ==
    IF sd = <<>> THEN [threw |-> TRUE, value |-> <<>>]
    ELSE [threw |-> FALSE, value |-> <<sd[1].measures>>]

\* line 59: structuredData?.measures
measuresOf(sd) ==
    IF sd = <<>> THEN [threw |-> FALSE, value |-> <<>>]
    ELSE [threw |-> FALSE, value |-> <<sd[1].measures>>]

\* a default display text that leaves out the octave modifier
structuredNoteBareSyllable(n) ==
    [syllable |-> IF n.display # <<>> /\ n.display[1] # <<>>
                  THEN n.display[1]
                  ELSE n.syllable,
     duration |-> IF n.duration # <<>> /\ n.duration[1] # 0
                  THEN n.duration[1]
                  ELSE BEAT,
     isRest   |-> n.is_rest # <<>> /\ n.is_rest[1]]

\* lines 64-68: the Note of one structured note; a || b takes b when a is
\* absent, '', 0 or false
structuredNote(n) ==
    LET octave_modifier == IF n.octave_modifier # <<>> THEN n.octave_modifier[1] ELSE <<>>
    IN  [syllable |-> IF n.display # <<>> /\ n.display[1] # <<>>
                      THEN n.display[1]
                      ELSE n.syllable \o octave_modifier,
         duration |-> IF n.duration # <<>> /\ n.duration[1] # 0
                      THEN n.duration[1]
                      ELSE BEAT,
         isRest   |-> n.is_rest # <<>> /\ n.is_rest[1]]

\* lines 60-69: the Measure of one structured measure
structuredMeasure(m, beatsPerMeasure) ==
    [number |-> m.number,
     beatsPerMeasure |-> beatsPerMeasure,
     notes |-> [k \in 1..Len(m.notes) |-> structuredNote(m.notes[k])]]

\* lines 58-73: the callback of useMemo
useMemoMeasures(sd, t, beatsPerMeasure) ==
    LET ms == measuresOf(sd)
    IN  IF ms.threw THEN [threw |-> TRUE, value |-> <<>>]
        ELSE IF ms.value # <<>>
        THEN [threw |-> FALSE,
              value |-> [k \in 1..Len(ms.value[1]) |->
                            structuredMeasure(ms.value[1][k], beatsPerMeasure)]]
        ELSE [threw |-> FALSE, value |-> parseTextToMeasures(t, beatsPerMeasure)]

(***************************************************************************)
(* The playback state as a record, so that a handler's continuation is a   *)
(* function from state to state.                                           *)
(*   walks[w]: pc ("resume" suspended on resumeAudio, "timer" suspended on *)
(*     a note's timer, "done" returned, "failed" rejected), i and n (the   *)
(*     measure and note being played), isPlaying (the value the closure    *)
(*     captured), waited (milliseconds of timers awaited), and the history *)
(*     fields stopped (handleStop ran while the walk was in flight) and    *)
(*     shown (the measure of its last setCurrentMeasure, 0 for none).      *)
(*   tones[k]: frequency, duration (ms), state (of the context when the    *)
(*     oscillator was started), by (who dispatched it).                    *)
(***************************************************************************)
\* the current state; `fresh` is the state a context constructed during this
\* task starts in, `threw` says that the call in progress has thrown
Now(fresh) ==
    [isPlaying |-> isPlaying, currentMeasure |-> currentMeasure,
     audioContext |-> audioContext, walks |-> walks, awaiting |-> awaiting,
     tones |-> tones, audioAvailable |-> audioAvailable,
     constructed |-> constructed, raised |-> raised,
     fresh |-> fresh, threw |-> FALSE]

Commit(s) ==
    /\ isPlaying' = s.isPlaying
    /\ currentMeasure' = s.currentMeasure
    /\ audioContext' = s.audioContext
    /\ walks' = s.walks
    /\ awaiting' = s.awaiting
    /\ tones' = s.tones
    /\ audioAvailable' = s.audioAvailable
    /\ constructed' = s.constructed
    /\ raised' = s.raised

\* states of a context right after construction (the autoplay policy decides)
FreshStates == {"suspended", "running"}

\* a context constructed at every call
getAudioContextAlways(s) ==
    IF s.audioAvailable
    THEN [s EXCEPT !.audioContext = s.fresh, !.constructed = @ + 1]
    ELSE [s EXCEPT !.threw = TRUE]

\* lines 23-28: `new (window.AudioContext || window.webkitAudioContext)()`
\* throws a TypeError when the host has neither constructor
getAudioContext(s) ==
    IF s.audioContext # "null" THEN s
    ELSE IF s.audioAvailable
    THEN [s EXCEPT !.audioContext = s.fresh, !.constructed = @ + 1]
    ELSE [s EXCEPT !.threw = TRUE]

\* an oscillator started whatever the frequency
playNoteAnyFrequency(s, frequency, duration, by) ==
    LET c == getAudioContext(s)
    IN  IF c.threw THEN c
        ELSE [c EXCEPT !.tones = Append(@, [frequency |-> frequency,
                                            duration |-> duration,
                                            state |-> c.audioContext,
                                            by |-> by])]

\* lines 56-87: no oscillator for frequency 0
playNote(s, frequency, duration, by) ==
    IF frequency = 0 THEN s
    ELSE LET c == getAudioContext(s)
         IN  IF c.threw THEN c
             ELSE [c EXCEPT !.tones = Append(@, [frequency |-> frequency,
                                                 duration |-> duration,
                                                 state |-> c.audioContext,
                                                 by |-> by])]

\* lines 92-103: solfaToFrequency is called without a key root
playSolfaNote(s, syllable, octave, durationBeats, tempo, by) ==
    playNote(s, solfaToFrequency(syllable, octave, DefaultKeyRoot),
             durationMs(durationBeats, tempo), by)

ByWalk(s, w) ==
    [src |-> "walk", walk |-> w, i |-> s.walks[w].i, n |-> s.walks[w].n,
     afterStop |-> s.walks[w].stopped]

ByClick(src) == [src |-> src, walk |-> 0, i |-> 0, n |-> 0, afterStop |-> FALSE]

\* lines 112-130, one iteration of playSequence for walk w up to its await
startNote(s, w) ==
    LET note == measures[s.walks[w].i].notes[s.walks[w].n]
        t == [s EXCEPT !.walks[w].pc = "timer"]
    IN  IF isSkippedNote(note) THEN t
        ELSE playSolfaNote(t, note.syllable, DefaultOctave,
                           durationOrOne(note.duration), Tempo, ByWalk(s, w))

\* lines 103-104
finishWalk(s, w) ==
    [s EXCEPT !.currentMeasure = <<>>, !.isPlaying = FALSE, !.walks[w].pc = "done"]

\* a loop test that never sees the flag down
loopReadsTrue(s, w) == TRUE

\* the value of isPlaying that handlePlayAll reads at line 97: the closure of
\* the render that bound the handler, not the state at the time of the test
loopReadsIsPlaying(s, w) == s.walks[w].isPlaying

\* lines 96-101 from the loop test for measure i, up to the next await
RECURSIVE walkLoop(_, _)
walkLoop(s, w) ==
    LET i == s.walks[w].i
    IN  IF i > Len(measures) THEN finishWalk(s, w)
        ELSE IF ~loopReadsIsPlaying(s, w) THEN finishWalk(s, w)
        ELSE LET t == [s EXCEPT !.currentMeasure = <<measures[i].number>>,
                                !.walks[w].shown = i]
             IN  IF measures[i].notes = <<>>
                 THEN walkLoop([t EXCEPT !.walks[w].i = i + 1], w)
                 ELSE startNote([t EXCEPT !.walks[w].n = 1], w)

\* the continuation of walk w after the timer of its note n
timerFired(s, w) ==
    LET wk == s.walks[w]
        note == measures[wk.i].notes[wk.n]
        t == [s EXCEPT !.walks[w].waited = @ + timerDelay(note, Tempo)]
    IN  IF wk.n < Len(measures[wk.i].notes)
        THEN startNote([t EXCEPT !.walks[w].n = wk.n + 1], w)
        ELSE walkLoop([t EXCEPT !.walks[w].i = wk.i + 1, !.walks[w].n = 0], w)

\* what a continuation suspended on resumeAudio does when ctx.resume() settles
continueAfterResume(s, e, ok) ==
    CASE e.kind = "walk" ->
            IF ok THEN walkLoop([s EXCEPT !.walks[e.walk].pc = "loop"], e.walk)
            ELSE [s EXCEPT !.walks[e.walk].pc = "failed"]
      [] e.kind = "note" ->
            IF ok THEN playSolfaNote(s, e.note.syllable, DefaultOctave,
                                     durationOrOne(e.note.duration), Tempo,
                                     ByClick("note"))
            ELSE s
      [] OTHER -> s

\* the promises of all pending ctx.resume() calls settle in one task, in call
\* order (Web Audio API, "pending resume promises"), and the continuations
\* are microtasks: they all run before the next click or timer
RECURSIVE settleAll(_, _, _)
settleAll(s, q, ok) ==
    IF q = <<>> THEN s
    ELSE settleAll(continueAfterResume(s, Head(q), ok), Tail(q), ok)

\* lines 154-159 as called from a handler: construct the context if there is
\* none; when it is suspended, call ctx.resume() and suspend the continuation e,
\* otherwise continue with e at once
\* when getAudioContext throws, the promise of resumeAudio is rejected and
\* the continuation never runs
resumeAudio(s, e) ==
    LET c == getAudioContext(s)
    IN  IF c.threw
        THEN [c EXCEPT !.threw = FALSE,
                       !.raised = Append(@, [src |-> e.kind, kind |-> "rejection"])]
        ELSE IF c.audioContext = "suspended"
        THEN [c EXCEPT !.awaiting = Append(@, e)]
        ELSE continueAfterResume(c, e, TRUE)

(***************************************************************************)
(* The handlers of SolfaDisplay and the tasks of the event loop.           *)
(***************************************************************************)
\* a walk is in flight from the click that starts it until it returns or rejects
InFlight(wk) == wk.pc \in {"resume", "timer"}

\* lines 90-105: a click on the button while it shows "Play All" (line 153:
\* the render with isPlaying false binds handlePlayAll)
handlePlayAll(s) ==
    LET w == Len(s.walks) + 1
        wk == [pc |-> "resume", i |-> 1, n |-> 0, isPlaying |-> s.isPlaying,
               waited |-> 0, stopped |-> FALSE, shown |-> 0]
        t == [s EXCEPT !.isPlaying = TRUE, !.walks = Append(@, wk)]
    IN  IF ~s.audioAvailable THEN s
        ELSE resumeAudio(t, [kind |-> "walk", walk |-> w])

\* line 151: the button is rendered only when isAudioAvailable()
PlayAll ==
    /\ audioAvailable
    /\ ~isPlaying
    /\ Len(walks) < MaxWalks
    /\ \E fresh \in FreshStates : Commit(handlePlayAll(Now(fresh)))
    /\ UNCHANGED <<measures, seq, text, parsed, renderVars, classifyVars, mapVars, jobVars>>

\* lines 107-110: a click on the button while it shows "Stop"
handleStop(s) ==
    [s EXCEPT !.isPlaying = FALSE, !.currentMeasure = <<>>,
              !.walks = [w \in 1..Len(s.walks) |->
                            IF InFlight(s.walks[w])
                            THEN [s.walks[w] EXCEPT !.stopped = TRUE]
                            ELSE s.walks[w]]]

Stop ==
    /\ isPlaying
    /\ Commit(handleStop(Now("running")))
    /\ UNCHANGED <<measures, seq, text, parsed, renderVars, classifyVars, mapVars, jobVars>>

\* clicks that are still waiting for ctx.resume()
pendingClicks == Len(SelectSeq(awaiting, LAMBDA e : e.kind # "walk"))

\* lines 85-88: a click on a note of the score
handleNoteClick(s, note) == resumeAudio(s, [kind |-> "note", note |-> note])

NoteClick ==
    /\ Len(tones) + pendingClicks < MaxTones
    /\ Len(raised) < MaxRaised
    /\ \E i \in 1..Len(measures) : \E n \in 1..Len(measures[i].notes) :
         \E fresh \in FreshStates :
            Commit(handleNoteClick(Now(fresh), measures[i].notes[n]))
    /\ UNCHANGED <<measures, seq, text, parsed, renderVars, classifyVars, mapVars, jobVars>>

\* components/solfa/SolfaLegend: the syllables of the legend's buttons
LegendSyllables == {"d", "r", "m", "f", "s", "l", "t", "0"}

\* lines 266-269: resumeAudio() is called and not awaited, then playSolfaNote;
\* an exception of playSolfaNote leaves the click handler
onSyllableClick(s, syllable) ==
    LET p == playSolfaNote(resumeAudio(s, [kind |-> "legend"]), <<syllable>>,
                           DefaultOctave, BEAT, Tempo, ByClick("legend"))
    IN  IF p.threw
        THEN [p EXCEPT !.threw = FALSE,
                       !.raised = Append(@, [src |-> "legend", kind |-> "exception"])]
        ELSE p

LegendClick ==
    /\ Len(tones) + pendingClicks < MaxTones
    /\ Len(raised) < MaxRaised
    /\ \E syllable \in LegendSyllables : \E fresh \in FreshStates :
         Commit(onSyllableClick(Now(fresh), syllable))
    /\ UNCHANGED <<measures, seq, text, parsed, renderVars, classifyVars, mapVars, jobVars>>

\* the tasks the event loop can run: the settling of the pending ctx.resume()
\* promises, and the timer of each walk suspended in playSequence
ReadyTasks ==
    (IF awaiting # <<>> THEN {[kind |-> "resume", walk |-> 0]} ELSE {})
    \cup { [kind |-> "timer", walk |-> w] : w \in { v \in 1..Len(walks) : walks[v].pc = "timer" } }

\* ctx.resume() settles: resolved, the context runs; rejected, it stays suspended
resumeSettled(s, ok) ==
    settleAll([s EXCEPT !.audioContext = IF ok THEN "running" ELSE @,
                        !.awaiting = <<>>],
              s.awaiting, ok)

EventLoopTask ==
    /\ \E task \in ReadyTasks :
         IF task.kind = "timer"
         THEN Commit(timerFired(Now("running"), task.walk))
         ELSE \E ok \in BOOLEAN : Commit(resumeSettled(Now("running"), ok))
    /\ UNCHANGED <<measures, seq, text, parsed, renderVars, classifyVars, mapVars, jobVars>>

\* transcripts shown by the page in the model:
\*   "| d 0 | r |",  "" (no measure),  "| d - x |"
SampleTexts ==
    { <<"|", " ", "d", " ", "0", " ", "|", " ", "r", " ", "|">>,
      <<>>,
      <<"|", " ", "d", " ", "-", " ", "x", " ", "|">> }

SeqNone == [pc |-> "none", notes |-> <<>>, tempo |-> Tempo, n |-> 0, clock |-> 0,
            due |-> 0, waited |-> 0, started |-> <<>>]

\* the job status page before it is mounted
JobNone ==
    [pc |-> "none", server |-> "pending", status |-> "null", captured |-> "null",
     interval |-> FALSE, inflight |-> 0, requests |-> 0, redirects |-> 0,
     error |-> FALSE, terminal |-> FALSE, late |-> 0, ticks |-> 0,
     tickRequests |-> 0]

\* no render, no classifier or mapper call and no job page is modelled
NoCall ==
    /\ structuredData = <<>>
    /\ memo = <<>>
    /\ rawToken = <<>>
    /\ classified = <<>>
    /\ mapped = <<>>
    /\ job = JobNone

\* a host with an AudioContext constructor, none constructed yet
Host0 ==
    /\ audioAvailable = TRUE
    /\ constructed = 0
    /\ raised = <<>>

\* the scheduler of a page that shows no measure and was never clicked
Idle0 ==
    /\ measures = <<>>
    /\ isPlaying = FALSE
    /\ currentMeasure = <<>>
    /\ audioContext = "null"
    /\ walks = <<>>
    /\ awaiting = <<>>
    /\ tones = <<>>
    /\ Host0

Init ==
    /\ text \in SampleTexts
    /\ measures = parseTextToMeasures(text, DefaultBeatsPerMeasure)
    /\ isPlaying = FALSE
    /\ currentMeasure = <<>>
    /\ audioContext = "null"
    /\ walks = <<>>
    /\ awaiting = <<>>
    /\ tones = <<>>
    /\ Host0
    /\ seq = SeqNone
    /\ parsed = <<>>
    /\ NoCall

Next == PlayAll \/ Stop \/ NoteClick \/ LegendClick \/ EventLoopTask

Spec == Init /\ [][Next]_vars

\* the event loop runs every task that is ready; clicks are up to the user
LiveSpec == Spec /\ WF_vars(EventLoopTask)

(***************************************************************************)
(* SeqSpec: one direct call of playSequence(notes, tempo).  seq.clock is   *)
(* the time in milliseconds; a timer fires at its due time or up to        *)
(* MaxLate milliseconds late.  seq.started logs, for each note the loop    *)
(* reached, the time and whether an oscillator was started.                *)
(***************************************************************************)
SeqNotes ==
    { [syllable |-> <<"d">>, duration |-> BEAT, isRest |-> FALSE],
      [syllable |-> <<"r">>, duration |-> 1, isRest |-> FALSE],
      [syllable |-> <<"0">>, duration |-> BEAT, isRest |-> TRUE],
      [syllable |-> <<"x">>, duration |-> 0, isRest |-> FALSE],
      [syllable |-> <<"m">>, duration |-> 2 * BEAT, isRest |-> TRUE] }

SeqInputs == UNION { [1..k -> SeqNotes] : k \in 0..MaxSeqLen }

Tempos == {60, 120}

\* lines 112-129 for note n, up to the await of its timer; the log entry
\* holds the frequency and the duration (ms) that playNote receives
seqStartNote(q, n) ==
    LET note == q.notes[n]
        frequency == IF isSkippedNote(note) THEN 0
                     ELSE solfaToFrequency(note.syllable, DefaultOctave, DefaultKeyRoot)
        tone == ~isSkippedNote(note) /\ frequency # 0
    IN  [q EXCEPT !.pc = "timer", !.n = n,
                  !.due = q.clock + Max(timerDelay(note, q.tempo), 0),
                  !.waited = @ + timerDelay(note, q.tempo),
                  !.started = Append(@, [n |-> n, at |-> q.clock, tone |-> tone,
                                         frequency |-> frequency,
                                         duration |-> durationMs(durationOrOne(note.duration),
                                                                 q.tempo)])]

SeqInit ==
    /\ Idle0
    /\ NoCall
    /\ text = <<>>
    /\ parsed = <<>>
    /\ \E notes \in SeqInputs, tempo \in Tempos :
         seq = [SeqNone EXCEPT !.pc = "called", !.notes = notes, !.tempo = tempo]

SeqCall ==
    /\ seq.pc = "called"
    /\ seq' = IF seq.notes = <<>> THEN [seq EXCEPT !.pc = "done"]
              ELSE seqStartNote(seq, 1)
    /\ UNCHANGED <<playVars, hostVars, text, parsed, renderVars, classifyVars, mapVars, jobVars>>

SeqTimer ==
    /\ seq.pc = "timer"
    /\ \E late \in 0..MaxLate :
         LET q == [seq EXCEPT !.clock = seq.due + late]
         IN  seq' = IF seq.n < Len(seq.notes) THEN seqStartNote(q, seq.n + 1)
                    ELSE [q EXCEPT !.pc = "done"]
    /\ UNCHANGED <<playVars, hostVars, text, parsed, renderVars, classifyVars, mapVars, jobVars>>

SeqNext == SeqCall \/ SeqTimer

SeqSpec == SeqInit /\ [][SeqNext]_vars

(***************************************************************************)
(* Transcripts of the model: every concatenation of at most MaxLexemes     *)
(* lexemes.                                                                *)
(***************************************************************************)
Lexemes == { <<"d">>, <<" ", "-">>, <<"-">>, <<"(", "r", ")">>, <<"|">>, <<"\n">> }

RECURSIVE concat(_)
concat(ss) == IF ss = <<>> THEN <<>> ELSE Head(ss) \o concat(Tail(ss))

Texts == { concat(ls) : ls \in UNION { [1..n -> Lexemes] : n \in 0..MaxLexemes } }

(***************************************************************************)
(* ParseSpec: one call of parseTextToMeasures on a transcript.             *)
(***************************************************************************)
ParseInit ==
    /\ Idle0
    /\ NoCall
    /\ seq = SeqNone
    /\ text \in Texts
    /\ parsed = <<>>

Parse ==
    /\ parsed = <<>>
    /\ parsed' = <<parseTextToMeasures(text, DefaultBeatsPerMeasure)>>
    /\ UNCHANGED <<playVars, hostVars, seq, text, renderVars, classifyVars, mapVars, jobVars>>

ParseNext == Parse

ParseSpec == ParseInit /\ [][ParseNext]_vars

(***************************************************************************)
(* HeaderSpec: one call of parseTextToMeasures on a transcript made of     *)
(* header prefixes, spaces, dashes, bars and notes.                        *)
(***************************************************************************)
HeaderPrefixes ==
    { <<"#">>, <<"K", "e", "y", ":">>, <<"T", "i", "m", "e">>,
      <<"M", "e", "a", "s", "u", "r", "e", "s", ":">>,
      <<"G", "e", "n", "e", "r", "a", "t", "e", "d", ":">> }

HeaderLexemes == HeaderPrefixes \cup { <<" ">>, <<"-">>, <<"|">>, <<"d">>, <<"\n">> }

HeaderTexts ==
    { concat(ls) : ls \in UNION { [1..n -> HeaderLexemes] : n \in 0..MaxHeaderLexemes } }

HeaderInit ==
    /\ Idle0
    /\ NoCall
    /\ seq = SeqNone
    /\ text \in HeaderTexts
    /\ parsed = <<>>

HeaderSpec == HeaderInit /\ [][ParseNext]_vars

(***************************************************************************)
(* RenderSpec: the first render of SolfaDisplay, either with a transcript  *)
(* of one measure of at most MaxTokens tokens and no structured document,  *)
(* or with a structured document of at most MaxDocItems measures and       *)
(* notes.                                                                  *)
(***************************************************************************)
RenderTokens ==
    { <<"(", "d", ")">>, <<"(", "r", ")">>, <<"m">>, <<"f">>, <<"-">>, <<"x">>,
      <<"0">>, <<"(", "d">> }

\* "|", then each token after a space, then " |"
RECURSIVE measureLine(_)
measureLine(ts) ==
    IF ts = <<>> THEN <<" ", "|">>
    ELSE <<" ">> \o Head(ts) \o measureLine(Tail(ts))

TokenTexts ==
    { <<"|">> \o measureLine(ts) :
        ts \in UNION { [1..n -> RenderTokens] : n \in 0..MaxTokens } }

Absent == <<>>

\* structured notes: nothing optional supplied; everything supplied with
\* falsy values; half a beat with a display string; a rest; a rest flag on a
\* sung syllable; a negative duration
StructuredNotes ==
    { [syllable |-> <<"d">>, octave_modifier |-> Absent, duration |-> Absent,
       is_rest |-> Absent, display |-> Absent],
      [syllable |-> <<"r">>, octave_modifier |-> << <<"'">> >>, duration |-> <<0>>,
       is_rest |-> <<FALSE>>, display |-> << <<>> >>],
      [syllable |-> <<"m">>, octave_modifier |-> << <<",">> >>, duration |-> <<1>>,
       is_rest |-> Absent, display |-> << <<"m", "i">> >>],
      [syllable |-> <<"0">>, octave_modifier |-> Absent, duration |-> <<3 * BEAT>>,
       is_rest |-> <<TRUE>>, display |-> Absent],
      [syllable |-> <<"s">>, octave_modifier |-> Absent, duration |-> Absent,
       is_rest |-> <<TRUE>>, display |-> Absent],
      [syllable |-> <<"l">>, octave_modifier |-> Absent, duration |-> <<0 - BEAT>>,
       is_rest |-> Absent, display |-> Absent] }

\* the measure numbers a document carries
DocNumbers == {1, 2}

\* a document is written as a sequence of items: the opening of a measure
\* with its number, or a note of the measure that is open
DocItems ==
    { [header |-> <<n>>, note |-> <<>>] : n \in DocNumbers }
    \cup { [header |-> <<>>, note |-> <<x>>] : x \in StructuredNotes }

RECURSIVE buildMeasures(_, _)
buildMeasures(items, ms) ==
    IF items = <<>> THEN ms
    ELSE LET it == Head(items)
         IN  IF it.header # <<>>
             THEN buildMeasures(Tail(items),
                                Append(ms, [number |-> it.header[1], notes |-> <<>>]))
             ELSE buildMeasures(Tail(items),
                                [ms EXCEPT ![Len(ms)].notes = Append(@, it.note[1])])

Docs ==
    { [measures |-> buildMeasures(is, <<>>)] :
        is \in { js \in UNION { [1..n -> DocItems] : n \in 0..MaxDocItems } :
                    js = <<>> \/ Head(js).header # <<>> } }

\* the transcript prop that accompanies a structured document
DocTexts == { <<>>, <<"|", "d", "|">> }

RenderInit ==
    /\ Idle0
    /\ seq = SeqNone
    /\ parsed = <<>>
    /\ rawToken = <<>>
    /\ classified = <<>>
    /\ mapped = <<>>
    /\ job = JobNone
    /\ memo = <<>>
    /\ \/ (structuredData = <<>> /\ text \in TokenTexts)
       \/ (structuredData \in { <<d>> : d \in Docs } /\ text \in DocTexts)

\* the render evaluates the callback of useMemo; the Measure list is what
\* MeasureBar and the handlers receive
Render ==
    /\ memo = <<>>
    /\ LET outcome == useMemoMeasures(structuredData, text, DefaultBeatsPerMeasure)
       IN  /\ memo' = <<outcome>>
           /\ measures' = outcome.value
    /\ UNCHANGED <<isPlaying, currentMeasure, audioContext, walks, awaiting, tones,
                   hostVars, seq, text, parsed, structuredData, classifyVars,
                   mapVars, jobVars>>

RenderNext == Render

RenderSpec == RenderInit /\ [][RenderNext]_vars

(***************************************************************************)
(* ClassifySpec: one call of parseSolfaSyllable on a token: a head         *)
(* followed by at most MaxMarks octave markers, dots and parentheses, or   *)
(* the name of a property that object literals inherit.                    *)
(***************************************************************************)
SungSyllables == {"d", "r", "m", "f", "s", "l", "t"}

\* the token made of syllable c followed by n markers k
markedToken(c, k, n) == <<c>> \o [j \in 1..n |-> k]

TokenHeads ==
    { <<>>, <<"(">>, <<"-">>, <<"x">>, <<"0">>, <<"D">>, <<"(", "d">> }
    \cup { <<c>> : c \in SungSyllables }

TokenMarks == {"'", ",", ".", ")"}

RawTokens ==
    { h \o m : h \in TokenHeads,
               m \in UNION { [1..n -> TokenMarks] : n \in 0..MaxMarks } }
    \cup InheritedKeys

ClassifyInit ==
    /\ Idle0
    /\ seq = SeqNone
    /\ text = <<>>
    /\ parsed = <<>>
    /\ structuredData = <<>>
    /\ memo = <<>>
    /\ rawToken \in RawTokens
    /\ classified = <<>>
    /\ mapped = <<>>
    /\ job = JobNone

Classify ==
    /\ classified = <<>>
    /\ classified' = <<parseSolfaSyllable(rawToken)>>
    /\ UNCHANGED <<playVars, hostVars, seq, text, parsed, renderVars, rawToken, mapVars, jobVars>>

ClassifyNext == Classify

ClassifySpec == ClassifyInit /\ [][ClassifyNext]_vars

(***************************************************************************)
(* Claims about parseTextToMeasures, checked under ParseSpec.              *)
(***************************************************************************)
\* the lines of the transcript that are not skipped and hold a bar
measureLines(t) ==
    LET lines == split(t, "\n")
    IN  SelectSeq(lines, LAMBDA l : ~isSkippedLine(l) /\ includes(l, "|"))

\* the token lists of the measure texts of the transcript, in document order
RECURSIVE tokenLists(_)
tokenLists(lines) ==
    IF lines = <<>> THEN <<>>
    ELSE LET mts == measureTextsOf(Head(lines))
         IN  [k \in 1..Len(mts) |-> tokenize(mts[k])] \o tokenLists(Tail(lines))

\* positions of the tokens that are not the held-note dash
notePositions(T) == { i \in 1..Len(T) : T[i] # SUSTAIN }

\* the number of dashes that follow position i without another token between
sustainsAfter(T, i) ==
    Cardinality({ q \in (i + 1)..Len(T) : \A r \in (i + 1)..q : T[r] = SUSTAIN })

\* duration of a token before any held-note dash is applied
baseDuration(token) ==
    IF Head(token) = "(" /\ token[Len(token)] = ")" THEN 1 ELSE BEAT

\* what the claim says of one measure: one Note per non-dash token, in order,
\* each lengthened by one beat per dash that directly follows it; dashes before
\* the first Note of the measure change nothing
SustainRule(T, notes) ==
    /\ Len(notes) = Cardinality(notePositions(T))
    /\ \A i \in notePositions(T) :
         LET j == Cardinality({ p \in notePositions(T) : p <= i })
         IN  /\ notes[j].syllable = removeChars(T[i], {"(", ")"})
             /\ notes[j].duration = baseDuration(T[i]) + BEAT * sustainsAfter(T, i)

\* C9: in the plain-text parser a token equal to "-" never creates a Note; it
\* adds exactly one beat to the Note that precedes it in the same measure, and
\* is dropped when the measure has no Note yet, leaving every other measure
\* as it is.
C9_SustainExtendsPrevious ==
    parsed # <<>> =>
        LET ms == parsed[1]
            Ts == tokenLists(measureLines(text))
        IN  /\ Len(ms) = Len(Ts)
            /\ \A k \in 1..Len(ms) : SustainRule(Ts[k], ms[k].notes)

\* a transcript parsed to a measure "d - -" (one Note of three beats) followed
\* by a measure that opens with a dash, which is dropped
C9_Witness ==
    /\ parsed # <<>>
    /\ \E k \in 1..(Len(parsed[1]) - 1) :
         LET Ts == tokenLists(measureLines(text))
         IN  /\ Ts[k] = << <<"d">>, SUSTAIN, SUSTAIN >>
             /\ Len(parsed[1][k].notes) = 1
             /\ parsed[1][k].notes[1].duration = 3 * BEAT
             /\ Head(Ts[k + 1]) = SUSTAIN
             /\ Len(parsed[1][k + 1].notes) = Len(Ts[k + 1]) - 1

\* the number of measure texts of one line, counted on its characters: the
\* positions of the first non-space character after a bar or the line start
segmentStarts(line) ==
    { i \in 1..Len(line) :
        /\ ~IsSpace(line[i]) /\ line[i] # "|"
        /\ \E b \in 0..(i - 1) :
             /\ (b = 0 \/ line[b] = "|")
             /\ \A j \in (b + 1)..(i - 1) : IsSpace(line[j]) }

RECURSIVE segmentCount(_)
segmentCount(lines) ==
    IF lines = <<>> THEN 0
    ELSE Cardinality(segmentStarts(Head(lines))) + segmentCount(Tail(lines))

\* C10: parseTextToMeasures numbers the Measures 1, 2, ..., n in document
\* order with one counter for all lines: there is one Measure per non-empty
\* bar-delimited segment of the non-skipped lines, the k-th has number k, and
\* skipped lines and lines without a bar yield none.
C10_GlobalNumbering ==
    parsed # <<>> =>
        /\ Len(parsed[1]) = segmentCount(measureLines(text))
        /\ \A k \in 1..Len(parsed[1]) : parsed[1][k].number = k

\* a line of two measures followed by a line of one: numbers 1, 2, 3
C10_Witness ==
    /\ parsed # <<>>
    /\ Len(parsed[1]) = 3
    /\ LET lines == measureLines(text)
       IN  /\ Len(lines) = 2
           /\ Cardinality(segmentStarts(lines[1])) = 2
           /\ Cardinality(segmentStarts(lines[2])) = 1
    /\ parsed[1][3].number = 3

(***************************************************************************)
(* Claims about header lines, checked under HeaderSpec.                    *)
(***************************************************************************)
\* the first character of the line that is not a space starts the prefix p
startsAfterSpaces(line, p) ==
    \E k \in 1..Len(line) :
        /\ \A j \in 1..(k - 1) : line[j] = " "
        /\ line[k] # " "
        /\ k + Len(p) - 1 <= Len(line)
        /\ \A j \in 1..Len(p) : line[k + j - 1] = p[j]

\* the lines the claim says are discarded: a header prefix after any number
\* of spaces, a separator (a line that begins with a dash), a blank line
isDiscardedLine(line) ==
    \/ \E p \in HeaderPrefixes : startsAfterSpaces(line, p)
    \/ (line # <<>> /\ line[1] = "-")
    \/ \A j \in 1..Len(line) : IsSpace(line[j])

\* the lines of the transcript that the claim does not discard and that hold
\* a bar
keptLines(t) ==
    SelectSeq(split(t, "\n"), LAMBDA l : ~isDiscardedLine(l) /\ includes(l, "|"))

\* C11: a line whose first non-space character starts one of the header
\* prefixes "#", "Key:", "Time", "Measures:", "Generated:", a separator line
\* that begins with "-", and a blank line produce no Measure, also when the
\* line holds a bar and when spaces precede the prefix: the Measures of the
\* result are those of the other lines.
C11_HeaderLinesSkipped ==
    parsed # <<>> => Len(parsed[1]) = segmentCount(keptLines(text))

(***************************************************************************)
(* Claims about the playback scheduler, checked under Spec and LiveSpec.   *)
(***************************************************************************)
WalkIds == 1..Len(walks)

\* the <<measure, note>> places of the tones walk w dispatched, in order
walkTones(w) ==
    LET mine == SelectSeq(tones, LAMBDA t : t.by.src = "walk" /\ t.by.walk = w)
    IN  [k \in 1..Len(mine) |-> <<mine[k].by.i, mine[k].by.n>>]

\* the places of the notes that are not rests, in document order
RECURSIVE sungPlaces(_)
sungPlaces(i) ==
    IF i > Len(measures) THEN <<>>
    ELSE LET ns == measures[i].notes
             idx == SelectSeq([n \in 1..Len(ns) |-> n], LAMBDA n : ~ns[n].isRest)
         IN  [k \in 1..Len(idx) |-> <<i, idx[k]>>] \o sungPlaces(i + 1)

\* the duration of all notes of measures i.. in duration units (1/BEAT beat)
RECURSIVE totalUnits(_)
totalUnits(i) ==
    IF i > Len(measures) THEN 0
    ELSE LET ns == measures[i].notes
             sum[n \in 0..Len(ns)] == IF n = 0 THEN 0 ELSE sum[n - 1] + ns[n].duration
         IN  sum[Len(ns)] + totalUnits(i + 1)

C2_WalkPlaysEveryNote ==
    \A w \in WalkIds :
        (walks[w].pc = "done" /\ ~walks[w].stopped) => walkTones(w) = sungPlaces(1)

\* C3: at most one walk that has not been cancelled is in flight (a new walk
\* begins only when every earlier walk has been cancelled or has ended), and
\* at most one walk is inside a measure, between its tones.
C3_OneActiveWalk ==
    /\ Cardinality({ w \in WalkIds : InFlight(walks[w]) /\ ~walks[w].stopped }) <= 1
    /\ Cardinality({ w \in WalkIds : walks[w].pc = "timer" }) <= 1

\* Play, Stop, Play again while the first walk is still suspended
C3_Witness ==
    \E v, w \in WalkIds :
        /\ v < w
        /\ InFlight(walks[v]) /\ walks[v].stopped
        /\ InFlight(walks[w]) /\ ~walks[w].stopped

\* C4: every walk that enters Playing eventually returns to Idle.
C4_ReturnsToIdle == isPlaying ~> ~isPlaying

C6_NoToneWhileSuspended ==
    \A k \in 1..Len(tones) : tones[k].state = "running"

\* C8: an uncancelled walk over notes totalling B beats at tempo T has waited
\* B * 60 / T seconds when it returns.
C8_WalkWaitsTotal ==
    \A w \in WalkIds :
        (walks[w].pc = "done" /\ ~walks[w].stopped)
            => walks[w].waited * BEAT * Tempo = totalUnits(1) * 60 * 1000

(***************************************************************************)
(* Claims about playSequence, checked under SeqSpec.                       *)
(***************************************************************************)
\* the wait the claim requires after a note: durationBeats * 60 / tempo s,
\* one beat when the note carries no duration
requiredWait(note, tempo) ==
    ((IF note.duration = 0 THEN BEAT ELSE note.duration) * 60000) \div (BEAT * tempo)

\* C7: within playSequence the notes are started in order, and no note is
\* started before the full duration of every earlier note has elapsed.
C7_Sequential ==
    /\ \A k \in 1..Len(seq.started) : seq.started[k].n = k
    /\ \A a, b \in 1..Len(seq.started) :
         a < b => seq.started[b].at >=
                    seq.started[a].at + requiredWait(seq.notes[seq.started[a].n], seq.tempo)

\* a call that has returned after two tones in a row, the second one late
C7_Witness ==
    /\ seq.pc = "done"
    /\ Len(seq.started) >= 2
    /\ seq.started[1].tone /\ seq.started[2].tone
    /\ seq.started[2].at > seq.started[1].at + requiredWait(seq.notes[1], seq.tempo)

(***************************************************************************)
(* Claims about the Notes of a plain-text measure, checked under           *)
(* RenderSpec on the renders without a structured document.                *)
(***************************************************************************)
\* the render has run on a transcript alone
RenderedText == memo # <<>> /\ structuredData = <<>>

\* the index, among the Notes of the measure, of the Note made from token i
noteIndex(T, i) == Cardinality({ p \in notePositions(T) : p <= i })

\* the durations of the Notes of a measure, in order
durationsOf(notes) == [j \in 1..Len(notes) |-> notes[j].duration]

\* "| (d) (r) m f |"
EighthsText ==
    <<"|", " ", "(", "d", ")", " ", "(", "r", ")", " ", "m", " ", "f", " ", "|">>

\* C12: in the plain-text parser every token other than the held-note dash
\* becomes exactly one Note, in token order, whose duration before any held
\* note is half a beat if the token is enclosed in parentheses and one beat
\* otherwise; "(d) (r) m f" yields four Notes of 0.5, 0.5, 1 and 1 beats.
C12_OneNotePerToken ==
    RenderedText =>
        LET Ts == tokenLists(measureLines(text))
        IN  /\ Len(measures) = Len(Ts)
            /\ \A k \in 1..Len(Ts) :
                 LET T == Ts[k]
                     notes == measures[k].notes
                 IN  /\ Len(notes) = Cardinality(notePositions(T))
                     /\ \A i \in notePositions(T) :
                          LET d == notes[noteIndex(T, i)].duration
                                       - BEAT * sustainsAfter(T, i)
                          IN  IF Head(T[i]) = "(" /\ T[i][Len(T[i])] = ")"
                              THEN 2 * d = BEAT
                              ELSE d = BEAT
            /\ text = EighthsText =>
                 /\ Len(measures) = 1
                 /\ \A j \in 1..4 : 2 * durationsOf(measures[1].notes)[j]
                                       = (IF j <= 2 THEN BEAT ELSE 2 * BEAT)

\* "(d) (r) m f" has been parsed into four Notes
C12_Witness ==
    /\ RenderedText
    /\ text = EighthsText
    /\ Len(measures) = 1
    /\ Len(measures[1].notes) = 4
    /\ measures[1].notes[1].duration < measures[1].notes[3].duration

\* C13: for every token of a plain-text measure other than the held-note
\* dash, the Note the parser emits has isRest = true if and only if
\* parseSolfaSyllable classifies the token to the rest syllable or the token
\* without its parentheses is exactly "0"; an unrecognised token such as "x"
\* yields a Note with isRest = true.
C13_RestIffClassifiedRest ==
    RenderedText =>
        LET Ts == tokenLists(measureLines(text))
        IN  \A k \in 1..Len(Ts) : \A i \in notePositions(Ts[k]) :
                measures[k].notes[noteIndex(Ts[k], i)].isRest
                    <=> \/ parseSolfaSyllable(Ts[k][i]).syllable = <<"0">>
                        \/ removeChars(Ts[k][i], {"(", ")"}) = <<"0">>

(***************************************************************************)
(* Claims about parseSolfaSyllable, checked under ClassifySpec.            *)
(***************************************************************************)
\* the token without parentheses, octave markers and dots, in lower case
cleanedFolded(t) ==
    toLowerCase(SelectSeq(t, LAMBDA c : c \notin {"(", ")", "'", ",", "."}))

\* C14: parseSolfaSyllable is total and closed over the eight syllables: for
\* every token, the empty string and the held-note dash included, it returns
\* one of d, r, m, f, s, l, t, 0, and it returns 0 for every token whose
\* cleaned, case-folded text is not one of the seven sung syllables.
C14_ClosedOverSyllables ==
    classified # <<>> =>
        /\ \E c \in SOLFA_COLORS : classified[1].syllable = <<c>>
        /\ (~\E c \in SungSyllables : cleanedFolded(rawToken) = <<c>>)
              => classified[1].syllable = <<"0">>

\* the signed count of a modifier: +1 for each ', -1 for each ,
signedCount(modifier) == countChar(modifier, "'") - countChar(modifier, ",")

\* C15: for a token made of one of d, r, m, f, s, l, t followed by octave
\* markers of a single kind (none to three, and any larger number),
\* parseSolfaSyllable returns that syllable and a modifier whose signed count
\* is the number of markers, positive for ' and negative for ,; and for no
\* token does the returned modifier mix the two kinds.
C15_OctaveModifierCount ==
    classified # <<>> =>
        /\ \A c \in SungSyllables : \A n \in 0..Len(rawToken) :
              /\ rawToken = markedToken(c, "'", n)
                    => /\ classified[1].syllable = <<c>>
                       /\ signedCount(classified[1].octaveModifier) = n
                       /\ Len(classified[1].octaveModifier) = n
              /\ rawToken = markedToken(c, ",", n)
                    => /\ classified[1].syllable = <<c>>
                       /\ signedCount(classified[1].octaveModifier) = 0 - n
                       /\ Len(classified[1].octaveModifier) = n
        /\ ~(includes(classified[1].octaveModifier, "'")
               /\ includes(classified[1].octaveModifier, ","))

\* "t,,," has been classified as t three octaves down
C15_Witness ==
    /\ rawToken = markedToken("t", ",", 3)
    /\ classified # <<>>
    /\ classified[1].syllable = <<"t">>
    /\ signedCount(classified[1].octaveModifier) = 0 - 3

(***************************************************************************)
(* Claims about the Measure list of a render, checked under RenderSpec on  *)
(* both input forms.                                                       *)
(***************************************************************************)
\* the render has run on a structured document
RenderedDoc == memo # <<>> /\ structuredData # <<>>

\* the <<measure, note>> places of the Measure list
notePlaces ==
    { <<k, j>> \in (1..Len(measures)) \X (1..MaxTokens + MaxDocItems) :
        j <= Len(measures[k].notes) }

\* "| - x (d |": a dash with no Note before it, an unknown token, an
\* unclosed parenthesis
MalformedText == <<"|", " ", "-", " ", "x", " ", "(", "d", " ", "|">>

\* C16: building the Measure list never raises: for every transcript and
\* every structured document the render ends without an exception, every
\* token of a transcript is mapped to a Note or dropped, and a structured
\* document yields one Measure per measure.
C16_NeverRaises ==
    memo # <<>> =>
        /\ ~memo[1].threw
        /\ measures = memo[1].value
        /\ RenderedText =>
             LET Ts == tokenLists(measureLines(text))
             IN  /\ Len(measures) = Len(Ts)
                 /\ \A k \in 1..Len(Ts) : Len(measures[k].notes) <= Len(Ts[k])
        /\ RenderedDoc => Len(measures) = Len(structuredData[1].measures)

\* the malformed measure has been rendered: the dash was dropped, the other
\* two tokens are Notes
C16_Witness ==
    /\ RenderedText
    /\ text = MalformedText
    /\ ~memo[1].threw
    /\ Len(measures) = 1
    /\ Len(measures[1].notes) = 2

\* C17: every Note of the Measure list has a duration greater than zero,
\* for a transcript after any number of held notes and for a structured note
\* whatever duration it supplies (none, zero, a fraction, a negative number).
C17_PositiveDurations ==
    memo # <<>> =>
        \A pl \in notePlaces : measures[pl[1]].notes[pl[2]].duration > 0

\* C18: for every Note of the Measure list, from either input form,
\* isRest = true implies that the syllable of the Note is the rest syllable
\* "0", and playSequence waits such a Note out without a tone.
C18_RestHasRestSyllable ==
    memo # <<>> =>
        \A pl \in notePlaces :
            LET note == measures[pl[1]].notes[pl[2]]
            IN  note.isRest =>
                   /\ parseSolfaSyllable(note.syllable).syllable = <<"0">>
                   /\ isSkippedNote(note)

\* the supplied value of an optional property, or a default when it is absent
supplied(opt, default) == IF opt # <<>> THEN opt[1] ELSE default

\* the structured notes and the Notes correspond one to one, in order
SameShape ==
    /\ Len(measures) = Len(structuredData[1].measures)
    /\ \A k \in 1..Len(measures) :
         Len(measures[k].notes) = Len(structuredData[1].measures[k].notes)

\* C19: the structured path maps the document one to one: as many Measures,
\* and in each as many Notes in the same order; the duration of a Note is
\* the supplied duration or one beat when absent, isRest is the supplied
\* is_rest or false when absent, the display text is the supplied display
\* or, when none was supplied, the syllable followed by the octave modifier.
C19_StructuredOneToOne ==
    RenderedDoc =>
        /\ SameShape
        /\ \A pl \in notePlaces :
             LET n == structuredData[1].measures[pl[1]].notes[pl[2]]
                 note == measures[pl[1]].notes[pl[2]]
             IN  /\ note.duration = supplied(n.duration, BEAT)
                 /\ note.isRest = supplied(n.is_rest, FALSE)
                 /\ note.syllable = supplied(n.display,
                                       n.syllable \o supplied(n.octave_modifier, <<>>))

\* C19 as amended: as above, except that a supplied duration of zero gives
\* one beat and a supplied empty display gives the syllable followed by the
\* octave modifier.
C19_StructuredOneToOneOrDefault ==
    RenderedDoc =>
        /\ SameShape
        /\ \A pl \in notePlaces :
             LET n == structuredData[1].measures[pl[1]].notes[pl[2]]
                 note == measures[pl[1]].notes[pl[2]]
                 default == n.syllable \o supplied(n.octave_modifier, <<>>)
             IN  /\ note.duration =
                       (IF supplied(n.duration, 0) = 0 THEN BEAT ELSE n.duration[1])
                 /\ note.isRest = supplied(n.is_rest, FALSE)
                 /\ note.syllable =
                       (IF supplied(n.display, <<>>) = <<>> THEN default ELSE n.display[1])

\* a document of two measures has been rendered; one of its notes supplies a
\* zero duration, an empty display and an octave modifier, and its Note has
\* one beat and the display text "r'"
C19_Witness ==
    /\ RenderedDoc
    /\ Len(measures) = 2
    /\ \E pl \in notePlaces :
         LET n == structuredData[1].measures[pl[1]].notes[pl[2]]
             note == measures[pl[1]].notes[pl[2]]
         IN  /\ n.duration = <<0>> /\ n.display = << <<>> >>
             /\ note.duration = BEAT
             /\ note.syllable = <<"r", "'">>

\* C20: in the Measure list handed to rendering and playback the i-th
\* Measure has number i, so the numbers are distinct, for a structured
\* document as well as for a transcript.
C20_SequentialNumbers ==
    memo # <<>> => \A i \in 1..Len(measures) : measures[i].number = i

(***************************************************************************)
(* MapSpec: calls of solfaToFrequency on one note string, at several       *)
(* octaves and key roots, interleaved with the classification of the       *)
(* string and with direct calls of playSolfaNote that construct and use    *)
(* the audio context.  mapped[k] logs the arguments of call k, its result, *)
(* the key it looked up and the state of the audio context at the call.    *)
(***************************************************************************)
Octaves == {4, 5}

KeyRoots == {"C", "G"}

\* "0", "", "-", "x", "D", "d.", "(d)", "d',", "d,'", "'d", and the
\* inherited property names
OddStrings ==
    { <<"0">>, <<>>, <<"-">>, <<"x">>, <<"D">>, <<"d", ".">>, <<"(", "d", ")">>,
      <<"d", "'", ",">>, <<"d", ",", "'">>, <<"'", "d">> }
    \cup InheritedKeys

NoteStrings ==
    { markedToken(c, k, n) : c \in SungSyllables, k \in {"'", ","}, n \in 0..MaxMarks }
    \cup OddStrings

MapInit ==
    /\ Idle0
    /\ seq = SeqNone
    /\ text = <<>>
    /\ parsed = <<>>
    /\ structuredData = <<>>
    /\ memo = <<>>
    /\ rawToken \in NoteStrings
    /\ classified = <<>>
    /\ mapped = <<>>
    /\ job = JobNone

MapFrequency ==
    /\ Len(mapped) < MaxCalls
    /\ \E octave \in Octaves, keyRoot \in KeyRoots :
         mapped' = Append(mapped,
                      [octave |-> octave, keyRoot |-> keyRoot,
                       frequency |-> solfaToFrequency(rawToken, octave, keyRoot),
                       noteKey |-> noteKeyOf(rawToken, octave),
                       audioContext |-> audioContext])
    /\ UNCHANGED <<playVars, hostVars, seq, text, parsed, renderVars, classifyVars,
                   jobVars>>

\* playSolfaNote(rawToken, 4, 1, 120), as the click handlers call it
PlayTone ==
    /\ Len(tones) < MaxTones
    /\ \E fresh \in FreshStates :
         Commit(playSolfaNote(Now(fresh), rawToken, DefaultOctave, BEAT, Tempo,
                              ByClick("direct")))
    /\ UNCHANGED <<measures, seq, text, parsed, renderVars, classifyVars, mapVars,
                   jobVars>>

MapClassify ==
    /\ Classify
    /\ UNCHANGED mapVars

MapNext == MapFrequency \/ PlayTone \/ MapClassify

MapSpec == MapInit /\ [][MapNext]_vars

(***************************************************************************)
(* Claims about the frequency mapper, checked under MapSpec.               *)
(***************************************************************************)
Calls == 1..Len(mapped)

\* C21: the mapper is deterministic and the rest syllable is always silent:
\* solfaToFrequency returns 0 for "0" at every octave and key root, calls
\* with equal arguments return equal results, and a frequency of 0 never
\* starts a tone: playNote creates no oscillator and no audio context for it.
C21_RestIsSilent ==
    /\ rawToken = <<"0">> => \A k \in Calls : mapped[k].frequency = 0
    /\ \A a, b \in Calls :
         (mapped[a].octave = mapped[b].octave /\ mapped[a].keyRoot = mapped[b].keyRoot)
            => mapped[a].frequency = mapped[b].frequency
    /\ \A t \in 1..Len(tones) : tones[t].frequency # 0
    /\ (\E k \in Calls : mapped[k].octave = DefaultOctave /\ mapped[k].frequency = 0)
         => (tones = <<>> /\ constructed = 0)

\* the rest syllable has been mapped at two octaves: silent both times
C21_Witness ==
    /\ rawToken = <<"0">>
    /\ Len(mapped) >= 2
    /\ mapped[1].octave # mapped[2].octave
    /\ mapped[1].frequency = 0 /\ mapped[2].frequency = 0
    /\ tones = <<>>

\* the keys of NOTE_FREQUENCIES: C3..B5 and C6
inTable(letter, octave) ==
    \/ (letter \in {"C", "D", "E", "F", "G", "A", "B"} /\ octave \in 3..5)
    \/ (letter = "C" /\ octave = 6)

TableValues ==
    { NOTE_FREQUENCIES(letter, octave) :
        letter \in {"C", "D", "E", "F", "G", "A", "B"}, octave \in 3..6 } \ {0}

\* what the claim requires of a call on a sung syllable c with n markers that
\* shift the octave by shift
MappedAs(call, c, shift) ==
    LET letter == SOLFA_TO_NOTE[c]
        effective == call.octave + shift
    IN  call.frequency = IF inTable(letter, effective)
                         THEN NOTE_FREQUENCIES(letter, effective)
                         ELSE NOTE_FREQUENCIES("C", 4)

\* C22: for every sung syllable whose letter and effective octave are outside
\* the table (C3..B5 and C6), solfaToFrequency returns the frequency of C4
\* instead of failing, and inside the table it returns the entry; so every
\* result of the mapper is 0 or a value of the table.
C22_FallbackFrequency ==
    \A k \in Calls :
        /\ mapped[k].frequency = 0 \/ mapped[k].frequency \in TableValues
        /\ \A c \in SungSyllables : \A n \in 0..Len(rawToken) :
             /\ rawToken = markedToken(c, "'", n) => MappedAs(mapped[k], c, n)
             /\ rawToken = markedToken(c, ",", n) => MappedAs(mapped[k], c, 0 - n)

\* "t''" mapped at octave 5 is B7, which the table lacks: the result is C4
C22_Witness ==
    /\ rawToken = markedToken("t", "'", 2)
    /\ \E k \in Calls :
         /\ mapped[k].octave = 5
         /\ mapped[k].frequency = NOTE_FREQUENCIES("C", 4)

\* C25: the octave of the key that solfaToFrequency looks up equals the
\* requested octave plus the signed octave modifier that parseSolfaSyllable
\* reports for the same note string, also when the string holds both kinds
\* of marker.
C25_LookupOctaveIsClassifiedOctave ==
    classified # <<>> =>
        \A k \in Calls :
            mapped[k].noteKey # <<>> =>
                mapped[k].noteKey[1].octave
                    = mapped[k].octave + signedCount(classified[1].octaveModifier)

\* C27: classifier and mapper agree on every note string: the frequency is
\* non-zero exactly when parseSolfaSyllable yields a syllable other than the
\* rest "0".
C27_AudibleIffSung ==
    classified # <<>> =>
        \A k \in Calls :
            (mapped[k].frequency # 0) <=> (classified[1].syllable # <<"0">>)

\* C30: the frequency depends only on the note string and the octave: calls
\* at the same octave return the same frequency whatever the key root and
\* whatever the state of the audio context at the call.
C30_KeyRootAndStateIgnored ==
    \A a, b \in Calls :
        mapped[a].octave = mapped[b].octave
            => mapped[a].frequency = mapped[b].frequency

\* a sung syllable mapped twice at one octave, under two key roots, before
\* and after the audio context was constructed
C30_Witness ==
    /\ Len(mapped) >= 2
    /\ mapped[1].octave = mapped[2].octave
    /\ mapped[1].keyRoot # mapped[2].keyRoot
    /\ mapped[1].audioContext = "null"
    /\ mapped[2].audioContext # "null"
    /\ mapped[1].frequency # 0
    /\ mapped[1].frequency = mapped[2].frequency

(***************************************************************************)
(* Claims about the shared audio context, checked under Spec.              *)
(***************************************************************************)
\* C26: the audio context is a lazily created singleton: over any sequence
\* of Play All, Stop, note clicks and legend clicks at most one AudioContext
\* is constructed, none exists before the first operation that uses one
\* (parsing and isAudioAvailable construct none), and every tone is played
\* on that one instance.
C26_LazySingleton ==
    /\ constructed <= 1
    /\ (constructed = 0) <=> (audioContext = "null")
    /\ (tones # <<>> \/ awaiting # <<>>) => constructed = 1

\* a Play All, and two tones played by clicks, on one context
C26_Witness ==
    /\ constructed = 1
    /\ Len(walks) >= 1
    /\ Len(tones) >= 2

\* C28: when ctx.resume() is rejected after handlePlayAll has set isPlaying,
\* the scheduler returns to Idle by itself: once no resume and no timer is
\* pending any more, a walk whose resume was rejected has left isPlaying
\* false and no measure shown.
C28_RejectedResumeReturnsToIdle ==
    (ReadyTasks = {} /\ \E w \in WalkIds : walks[w].pc = "failed")
        => (~isPlaying /\ currentMeasure = <<>>)

(***************************************************************************)
(* JobSpec: the job status page (app/job/[id]/page.tsx).  job.server is    *)
(* the state of the job on the server, job.status the state field of the   *)
(* page's status ("null" before the first response), job.captured the      *)
(* status?.state that the closure of the current interval captured,        *)
(* job.inflight the number of requests awaiting their response.  Ghost     *)
(* fields: requests and redirects count getJobStatus and router.push       *)
(* calls, terminal tells that a 'completed' or 'failed' response has been  *)
(* received, late counts the requests issued after that, ticks and         *)
(* tickRequests count the interval callbacks and the requests they issued. *)
(***************************************************************************)
TerminalStates == {"completed", "failed"}

\* lines 16-18: fetchStatus up to its await
fetchStatus(j) ==
    [j EXCEPT !.inflight = @ + 1, !.requests = @ + 1,
              !.late = IF j.terminal THEN @ + 1 ELSE @]

\* lines 30-41: the effect of a render whose status?.state is state
jobEffect(j, state) ==
    [fetchStatus(j) EXCEPT !.interval = TRUE, !.captured = state]

\* lines 34-38: the interval callback
intervalCallback(j) ==
    LET t == [j EXCEPT !.ticks = @ + 1]
    IN  IF t.captured \notin TerminalStates
        THEN [fetchStatus(t) EXCEPT !.tickRequests = @ + 1]
        ELSE t

\* lines 18-27: fetchStatus after its await, the response carrying the
\* server's state, followed by the render that setStatus causes: when
\* status?.state changed, the effect is cleaned up and runs again
\* (dependencies at line 41).  A failed request sets error only.
\* On an unmounted page the state update is dropped and router.push still runs.
fetchStatusResponse(j, ok) ==
    LET got == [j EXCEPT !.inflight = @ - 1]
        data == j.server
        pushed == [got EXCEPT !.terminal = @ \/ data \in TerminalStates,
                              !.redirects = IF data = "completed" THEN @ + 1 ELSE @]
        set == [pushed EXCEPT !.status = data]
    IN  IF ~ok THEN [got EXCEPT !.error = TRUE]
        ELSE IF j.pc # "mounted" THEN pushed
        ELSE IF data # j.captured THEN jobEffect(set, data)
        ELSE set

JobInit ==
    /\ Idle0
    /\ seq = SeqNone
    /\ text = <<>>
    /\ parsed = <<>>
    /\ NoCall

JobRest == <<playVars, hostVars, seq, text, parsed, renderVars, classifyVars, mapVars>>

Mount ==
    /\ job.pc = "none"
    /\ job' = jobEffect([job EXCEPT !.pc = "mounted"], "null")
    /\ UNCHANGED JobRest

Tick ==
    /\ job.pc = "mounted" /\ job.interval
    /\ job.ticks < MaxTicks
    /\ job' = intervalCallback(job)
    /\ UNCHANGED JobRest

ServerAdvance ==
    /\ \E next \in {"processing", "completed", "failed"} :
         /\ \/ job.server = "pending"
            \/ (job.server = "processing" /\ next \in TerminalStates)
         /\ job' = [job EXCEPT !.server = next]
    /\ UNCHANGED JobRest

Respond ==
    /\ job.inflight > 0
    /\ \E ok \in BOOLEAN : job' = fetchStatusResponse(job, ok)
    /\ UNCHANGED JobRest

\* line 40: the cleanup of the effect when the page is left
Unmount ==
    /\ job.pc = "mounted"
    /\ job' = [job EXCEPT !.pc = "unmounted", !.interval = FALSE]
    /\ UNCHANGED JobRest

JobNext == Mount \/ Tick \/ ServerAdvance \/ Respond \/ Unmount

JobSpec == JobInit /\ [][JobNext]_vars

\* C29: once a response with state 'completed' or 'failed' has been
\* received, no further status request is issued and router.push is called
\* at most once; before that, a request is issued on mount and by every
\* tick of the interval.
C29_NoRequestAfterTerminal ==
    /\ job.late = 0
    /\ job.redirects <= 1
    /\ job.pc # "none" => job.requests >= 1
    /\ ~job.terminal => job.tickRequests = job.ticks

(***************************************************************************)
(* NoAudioSpec: the page on a host without an audio backend                *)
(* (window.AudioContext and window.webkitAudioContext undefined, so        *)
(* isAudioAvailable() is false).  raised logs the exceptions and the       *)
(* rejected promises that no handler catches.                              *)
(***************************************************************************)
NoAudioInit ==
    /\ text \in SampleTexts
    /\ measures = parseTextToMeasures(text, DefaultBeatsPerMeasure)
    /\ isPlaying = FALSE
    /\ currentMeasure = <<>>
    /\ audioContext = "null"
    /\ walks = <<>>
    /\ awaiting = <<>>
    /\ tones = <<>>
    /\ audioAvailable = FALSE
    /\ constructed = 0
    /\ raised = <<>>
    /\ seq = SeqNone
    /\ parsed = <<>>
    /\ NoCall

\* handlePlayAll on such a host (the button that binds it is not rendered,
\* line 151): line 91 returns
PlayAllUnavailable ==
    /\ ~audioAvailable
    /\ \E fresh \in FreshStates : Commit(handlePlayAll(Now(fresh)))
    /\ UNCHANGED <<measures, seq, text, parsed, renderVars, classifyVars, mapVars,
                   jobVars>>

NoAudioNext == PlayAllUnavailable \/ NoteClick \/ LegendClick

NoAudioSpec == NoAudioInit /\ [][NoAudioNext]_vars

\* C24: on a host without an audio backend no playback entry point (Play
\* All, note click, legend click) creates or uses an audio context or raises
\* an error: the scheduler stays Idle with no measure shown, and the Measure
\* model is the one the parser produces when audio is available.
C24_NoAudioNoError ==
    ~audioAvailable =>
        /\ raised = <<>>
        /\ audioContext = "null" /\ constructed = 0
        /\ tones = <<>> /\ awaiting = <<>>
        /\ ~isPlaying /\ currentMeasure = <<>>
        /\ measures = parseTextToMeasures(text, DefaultBeatsPerMeasure)

(***************************************************************************)
(* ClickSpec: a score of one measure with one Note, made by the render     *)
(* from a structured document or from a transcript.  The Note can be       *)
(* clicked (handleNoteClick), and playSequence is called on the notes of   *)
(* the measure at the tempo of the click.                                  *)
(***************************************************************************)
\* "d", "0", "(r)", "x", "d'", "d."
ClickTokens ==
    { <<"d">>, <<"0">>, <<"(", "r", ")">>, <<"x">>, <<"d", "'">>, <<"d", ".">> }

ClickTexts == { <<"|">> \o measureLine(<<tok>>) : tok \in ClickTokens }

ClickDocs == { [measures |-> <<[number |-> 1, notes |-> <<x>>]>>] : x \in StructuredNotes }

ClickInit ==
    /\ \/ structuredData = <<>> /\ text \in ClickTexts
       \/ text = <<>> /\ structuredData \in { <<doc>> : doc \in ClickDocs }
    /\ measures = useMemoMeasures(structuredData, text, DefaultBeatsPerMeasure).value
    /\ isPlaying = FALSE
    /\ currentMeasure = <<>>
    /\ audioContext = "null"
    /\ walks = <<>>
    /\ awaiting = <<>>
    /\ tones = <<>>
    /\ Host0
    /\ seq = [SeqNone EXCEPT !.pc = "called", !.notes = measures[1].notes,
                             !.tempo = Tempo]
    /\ parsed = <<>>
    /\ memo = <<>>
    /\ rawToken = <<>>
    /\ classified = <<>>
    /\ mapped = <<>>
    /\ job = JobNone

ClickNext == SeqCall \/ SeqTimer \/ NoteClick \/ EventLoopTask

ClickSpec == ClickInit /\ [][ClickNext]_vars

\* C23: clicking a Note dispatches a tone if and only if playSequence at the
\* same tempo dispatches one for that Note, and then with the same frequency
\* and the same duration.  (Once the context runs and no click awaits it,
\* every tone the clicks on the Note could dispatch is in tones.)
C23_ClickAsSequence ==
    (audioContext = "running" /\ awaiting = <<>> /\ seq.started # <<>>) =>
        LET e == seq.started[1]
        IN  /\ (tones # <<>>) <=> e.tone
            /\ \A k \in 1..Len(tones) :
                 /\ tones[k].frequency = e.frequency
                 /\ tones[k].duration = e.duration

====
